---- MODULE Spec2Model ----
(***************************************************************************)
(* Task-state synchronisation of the asynchronous image generator:         *)
(* the task store (pkg/db/image_generation_db.py), the session cache, the  *)
(* background worker and its webhook notifier                              *)
(* (pkg/tools/image_generator.py) and the webhook receiver                 *)
(* (pkg/api/image_generation_api.py).                                      *)
(***************************************************************************)
EXTENDS Integers, Sequences, FiniteSets, TLC

\* ------------------------------------------------------------------ bounds
MaxTasks == 1          \* distinct task ids a caller can name
MaxCalls == 2          \* generate_image invocations
MaxExternal == 1       \* webhook requests sent by parties other than the notifier
MaxEvicted == 1        \* rows of earlier tasks the session cache no longer holds
MaxPending == 22       \* non-terminal entries of a list given to the retention policy
MaxTerminal == 31      \* terminal entries of a list given to the retention policy
MaxRows == 5           \* rows of a Store given to the list queries
MaxOffset == 2         \* offset of a list query

\* --------------------------------------------------------------- constants
MAX_TASKS_IN_SESSION_STATE == 20

None == "None"         \* Python None / SQL NULL in a text column or argument
NoTime == 0            \* Python None / SQL NULL in a DateTime column or argument
IsoNone == <<>>        \* Python None where an ISO-8601 string is expected

IdOf(i) == "task-" \o ToString(i)
TaskIds == {IdOf(i) : i \in 1..MaxTasks}
Calls == 1..MaxCalls
\* ids of tasks of earlier runs, kept by the durable Store
NHistory == MAX_TASKS_IN_SESSION_STATE + MaxEvicted
HistoryIds == {IdOf(MaxTasks + i) : i \in 1..NHistory}
Prompt == "fruit puree"
SessionId == "session-1"
RunIds == {"run-1"}    \* run_context.run_id of the conversation's run

Terminal == {"completed", "failed"}
NonTerminal == {"pending", "processing"}
Statuses == NonTerminal \cup Terminal

\* datetime.isoformat(): the string form of a timestamp
IsoFormat(t) == <<"T", t>>

\* f"https://example.com/generated-images/{task_id}.png"
Url(task_id) == "https://example.com/generated-images/" \o task_id \o ".png"

VARIABLES
    store,       \* table image_generation_tasks: sequence of rows, insertion order
    cache,       \* session_state["image_generation_tasks"]: list of dicts
    call,        \* per generate_image invocation: position, arguments, result
    worker,      \* per invocation: the background thread it started
    inflight,    \* per worker: the webhook request its client gave up on, still at the server
    clock,       \* datetime.utcnow()
    external,    \* number of webhook requests made by other parties
    probe,       \* a function applied on its own: its argument and its result
    termWrites   \* per task id: terminal writes made by notifier and receiver for the task's own completion

system == <<store, cache, call, worker, inflight, clock, external, termWrites>>
vars == <<system, probe>>

\* ------------------------------------------------------------- Task Store
\* ImageGenerationTask(id=..., prompt=..., status="pending", created_at=utcnow, ...)
NewRow(task_id, prompt, session_id, run_id, now) ==
    [id |-> task_id, prompt |-> prompt, status |-> "pending",
     image_url |-> None, error_message |-> None,
     created_at |-> now, completed_at |-> NoTime,
     session_id |-> session_id, run_id |-> run_id]

\* positions of the rows with this id
RowsOf(s, task_id) == {i \in 1..Len(s) : s[i].id = task_id}

\* column id is the primary key: the insert of an existing id is rejected
PrimaryKeyFree(s, task_id) == RowsOf(s, task_id) = {}

\* db.query(ImageGenerationTask).filter_by(id=task_id).first()
HasTask(s, task_id) == RowsOf(s, task_id) # {}
FirstRow(s, task_id) == CHOOSE i \in RowsOf(s, task_id) : \A j \in RowsOf(s, task_id) : i <= j
GetTask(s, task_id) == s[FirstRow(s, task_id)]

\* create_task on a table without the primary key
CreateTaskOk_NoPrimaryKey(s, task_id) == TRUE

\* create_task: raises (and rolls back) when the insert is rejected
CreateTaskOk(s, task_id) == PrimaryKeyFree(s, task_id)
CreateTask(s, task_id, prompt, session_id, run_id, now) ==
    Append(s, NewRow(task_id, prompt, session_id, run_id, now))

\* update_task assigning every argument, None included
UpdateTask_WritesNone(s, task_id, status, image_url, error_message, completed_at) ==
    IF ~HasTask(s, task_id) THEN s
    ELSE [s EXCEPT ![FirstRow(s, task_id)] =
            [@ EXCEPT !.status = status, !.image_url = image_url,
                      !.error_message = error_message, !.completed_at = completed_at]]

\* update_task written as a replacement of the row (INSERT OR REPLACE): the
\* columns the call does not carry fall back to their defaults
UpdateTask_ReplacesRow(s, task_id, status, image_url, error_message, completed_at) ==
    IF ~HasTask(s, task_id) THEN s
    ELSE [s EXCEPT ![FirstRow(s, task_id)] =
            [NewRow(task_id, @.prompt, None, None, @.created_at)
                EXCEPT !.status = IF status # None THEN status ELSE "pending",
                       !.image_url = image_url, !.error_message = error_message,
                       !.completed_at = completed_at]]

\* update_task: only the arguments that are not None are written
UpdateTask(s, task_id, status, image_url, error_message, completed_at) ==
    IF ~HasTask(s, task_id) THEN s
    ELSE LET i == FirstRow(s, task_id)
             r == s[i]
         IN [s EXCEPT ![i] =
               [r EXCEPT !.status = IF status # None THEN status ELSE r.status,
                         !.image_url = IF image_url # None THEN image_url ELSE r.image_url,
                         !.error_message = IF error_message # None THEN error_message
                                           ELSE r.error_message,
                         !.completed_at = IF completed_at # NoTime THEN completed_at
                                          ELSE r.completed_at]]

\* update_task with its transaction: db.commit() makes the assignments
\* durable; when it raises, db.rollback() discards them and the exception is
\* re-raised to the caller.  A missing row returns None before any commit.
CommitOutcomes == {"ok", "raises"}

UpdateTaskCommitted(s, task_id, status, image_url, error_message, completed_at, commit) ==
    IF HasTask(s, task_id) /\ commit = "raises" THEN s
    ELSE UpdateTask(s, task_id, status, image_url, error_message, completed_at)

UpdateTaskReturn(s, task_id, status, image_url, error_message, completed_at, commit) ==
    IF ~HasTask(s, task_id) THEN None
    ELSE IF commit = "raises" THEN "raised"
    ELSE GetTask(UpdateTask(s, task_id, status, image_url, error_message, completed_at), task_id)

\* task_to_dict
TaskToDict(r) ==
    [task_id |-> r.id, prompt |-> r.prompt, status |-> r.status,
     image_url |-> r.image_url, error_message |-> r.error_message,
     created_at |-> IF r.created_at # NoTime THEN IsoFormat(r.created_at) ELSE IsoNone,
     completed_at |-> IF r.completed_at # NoTime THEN IsoFormat(r.completed_at) ELSE IsoNone,
     session_id |-> r.session_id, run_id |-> r.run_id]

\* `if status:` -- a filter argument that is None or empty is not applied
Truthy(x) == x \notin {None, ""}

\* query.filter(...) for each filter argument that is applied
RowMatches(r, status, session_id, run_id) ==
    /\ Truthy(status) => r.status = status
    /\ Truthy(session_id) => r.session_id = session_id
    /\ Truthy(run_id) => r.run_id = run_id

FilterRows(s, status, session_id, run_id) ==
    LET Test(r) == RowMatches(r, status, session_id, run_id)
    IN SelectSeq(s, Test)

\* order_by(created_at.desc()): SQLite returns rows of equal created_at in
\* the order of the table scan, with and without LIMIT
InsertRowDesc(sorted, r) ==
    LET k == Cardinality({i \in 1..Len(sorted) : sorted[i].created_at >= r.created_at})
    IN SubSeq(sorted, 1, k) \o <<r>> \o SubSeq(sorted, k + 1, Len(sorted))

RECURSIVE OrderByCreatedAtDesc(_)
OrderByCreatedAtDesc(rows) ==
    IF rows = <<>> THEN <<>>
    ELSE InsertRowDesc(OrderByCreatedAtDesc(SubSeq(rows, 1, Len(rows) - 1)), rows[Len(rows)])

\* .offset(offset).limit(limit), offset >= 0 and limit >= 1 as the endpoint's
\* Query(ge=...) validation admits them
OffsetLimit(rows, offset, limit) ==
    SubSeq(rows, offset + 1, IF offset + limit <= Len(rows) THEN offset + limit ELSE Len(rows))

\* list_tasks paging before it sorts
ListTasks_PageUnsorted(s, status, session_id, run_id, limit, offset) ==
    LET query == FilterRows(s, status, session_id, run_id)
    IN [total |-> Len(query),
        tasks |-> OrderByCreatedAtDesc(OffsetLimit(query, offset, limit))]

\* list_tasks: (total, tasks)
ListTasks(s, status, session_id, run_id, limit, offset) ==
    LET query == FilterRows(s, status, session_id, run_id)
    IN [total |-> Len(query),
        tasks |-> OffsetLimit(OrderByCreatedAtDesc(query), offset, limit)]

\* get_all_tasks dropping the run_id filter
GetAllTasks_NoRunFilter(s, status, session_id, run_id) ==
    LET query == FilterRows(s, status, session_id, None)
    IN [total |-> Len(query), tasks |-> OrderByCreatedAtDesc(query)]

\* get_all_tasks: (total, tasks)
GetAllTasks(s, status, session_id, run_id) ==
    LET query == FilterRows(s, status, session_id, run_id)
    IN [total |-> Len(query), tasks |-> OrderByCreatedAtDesc(query)]

\* ---------------------------------------------------------- Session Cache
\* task.get("status"), task.get("task_id")
EntryStatus(e) == IF "status" \in DOMAIN e THEN e.status ELSE None
EntryId(e) == IF "task_id" \in DOMAIN e THEN e.task_id ELSE None

\* {**task, **task_info} with the operands the other way round
MergeDict_KeepsPrior(task, task_info) == task @@ task_info

\* {**task, **task_info}: every key of task_info overwrites, the rest is kept
MergeDict(task, task_info) == task_info @@ task

\* _update_task_in_session_state without the search for the id
UpdateTaskInSessionState_AlwaysAppend(tasks, task_info) == Append(tasks, task_info)

\* _update_task_in_session_state: merge into the first entry with the id, else append
UpdateTaskInSessionState(tasks, task_info) ==
    LET hits == {i \in 1..Len(tasks) : EntryId(tasks[i]) = task_info.task_id}
    IN IF hits # {}
       THEN LET i == CHOOSE h \in hits : \A j \in hits : h <= j
            IN [tasks EXCEPT ![i] = MergeDict(tasks[i], task_info)]
       ELSE Append(tasks, task_info)

IsPendingEntry(e) == EntryStatus(e) \in NonTerminal
IsCompletedEntry(e) == EntryStatus(e) \notin NonTerminal

\* key=lambda x: x.get("created_at", ""): ISO strings compare as their instants,
\* the default "" sorts below every ISO string (created_at is never None:
\* create_task and generate_image always set it)
CreatedKey(e) == IF "created_at" \in DOMAIN e /\ e.created_at # IsoNone
                 THEN e.created_at[2] ELSE 0

\* a sort that puts the smallest key first
InsertByKeyDesc_Ascending(sorted, e) ==
    LET k == Cardinality({i \in 1..Len(sorted) : CreatedKey(sorted[i]) <= CreatedKey(e)})
    IN SubSeq(sorted, 1, k) \o <<e>> \o SubSeq(sorted, k + 1, Len(sorted))

\* an ascending sort that is then reversed: equal keys come out in reverse
InsertByKeyDesc_TiesReversed(sorted, e) ==
    LET k == Cardinality({i \in 1..Len(sorted) : CreatedKey(sorted[i]) > CreatedKey(e)})
    IN SubSeq(sorted, 1, k) \o <<e>> \o SubSeq(sorted, k + 1, Len(sorted))

\* list.sort(key=..., reverse=True): stable, greatest key first
InsertByKeyDesc(sorted, e) ==
    LET k == Cardinality({i \in 1..Len(sorted) : CreatedKey(sorted[i]) >= CreatedKey(e)})
    IN SubSeq(sorted, 1, k) \o <<e>> \o SubSeq(sorted, k + 1, Len(sorted))

RECURSIVE SortNewestFirst(_)
SortNewestFirst(tasks) ==
    IF tasks = <<>> THEN <<>>
    ELSE InsertByKeyDesc(SortNewestFirst(SubSeq(tasks, 1, Len(tasks) - 1)), tasks[Len(tasks)])

Max(a, b) == IF a >= b THEN a ELSE b
Min(a, b) == IF a <= b THEN a ELSE b

\* _cleanup_old_tasks cutting the whole list to the cap
CleanupOldTasks_CapAll(tasks) ==
    IF Len(tasks) <= MAX_TASKS_IN_SESSION_STATE THEN tasks
    ELSE LET pending_tasks == SelectSeq(tasks, IsPendingEntry)
             completed_tasks == SortNewestFirst(SelectSeq(tasks, IsCompletedEntry))
         IN SubSeq(pending_tasks \o completed_tasks, 1, MAX_TASKS_IN_SESSION_STATE)

\* _cleanup_old_tasks
CleanupOldTasks(tasks) ==
    IF Len(tasks) <= MAX_TASKS_IN_SESSION_STATE THEN tasks
    ELSE LET pending_tasks == SelectSeq(tasks, IsPendingEntry)
             completed_tasks == SortNewestFirst(SelectSeq(tasks, IsCompletedEntry))
             remaining_slots == MAX_TASKS_IN_SESSION_STATE - Len(pending_tasks)
             kept_completed == SubSeq(completed_tasks, 1,
                                      Min(Len(completed_tasks), Max(0, remaining_slots)))
         IN pending_tasks \o kept_completed

\* ------------------------------------------------------ Completion Receiver
\* datetime.fromisoformat(callback.completed_at.replace("Z", "+00:00")),
\* ValueError -> datetime.utcnow(); the column stores the instant without zone
ParseCompletedAt(text, now) ==
    IF text[1] \in {"T", "TZ"} THEN text[2] ELSE now

Malformed(text) == text[1] \notin {"T", "TZ"}

\* image_generation_callback: the Store after the request, and its HTTP status
CallbackStore(s, callback, now) ==
    UpdateTask(s, callback.task_id, callback.status, callback.image_url,
               callback.error_message, ParseCompletedAt(callback.completed_at, now))

\* image_generation_callback without the check of what update_task returned
CallbackStatusCode_NoCheck(s, callback) == 200

CallbackStatusCode(s, callback) == IF HasTask(s, callback.task_id) THEN 200 ELSE 404

\* ------------------------------------------------------------- Query API
\* the routes in the order register_image_generation_api adds them to the app
Routes ==
    << [method |-> "POST", path |-> <<"webhook", "image-generation-callback">>,
        endpoint |-> "image_generation_callback"],
       [method |-> "GET", path |-> <<"api", "tasks", "{task_id}">>, endpoint |-> "get_task"],
       [method |-> "GET", path |-> <<"api", "tasks">>, endpoint |-> "list_tasks"],
       [method |-> "GET", path |-> <<"api", "tasks", "all">>, endpoint |-> "get_all_tasks"],
       [method |-> "GET", path |-> <<"api", "health">>, endpoint |-> "health_check"] >>

\* a path parameter matches any one segment
IsParam(segment) == segment = "{task_id}"

RouteMatches(route, method, path) ==
    /\ route.method = method
    /\ Len(route.path) = Len(path)
    /\ \A i \in 1..Len(path) : IsParam(route.path[i]) \/ route.path[i] = path[i]

\* the router hands the request to the first route that matches; 0: none does
Dispatch(method, path) ==
    LET hits == {i \in 1..Len(Routes) : RouteMatches(Routes[i], method, path)}
    IN IF hits = {} THEN 0 ELSE CHOOSE i \in hits : \A j \in hits : i <= j

\* [TaskResponse(**db.task_to_dict(task)) for task in tasks]
TaskList(rows) == [i \in 1..Len(rows) |-> TaskToDict(rows[i])]

\* the response to GET path?status=..&session_id=..&run_id=..&limit=..&offset=..
HttpGet(s, path, status, session_id, run_id, limit, offset) ==
    LET route == Dispatch("GET", path)
        endpoint == IF route = 0 THEN "none" ELSE Routes[route].endpoint
    IN CASE endpoint = "get_task" ->
              IF HasTask(s, path[3])
              THEN [endpoint |-> endpoint, code |-> 200,
                    task |-> TaskToDict(GetTask(s, path[3]))]
              ELSE [endpoint |-> endpoint, code |-> 404]
         [] endpoint = "list_tasks" ->
              LET found == ListTasks(s, status, session_id, run_id, limit, offset)
              IN [endpoint |-> endpoint, code |-> 200, total |-> found.total,
                  tasks |-> TaskList(found.tasks)]
         [] endpoint = "get_all_tasks" ->
              LET found == GetAllTasks(s, status, session_id, run_id)
              IN [endpoint |-> endpoint, code |-> 200, total |-> found.total,
                  tasks |-> TaskList(found.tasks)]
         [] endpoint = "health_check" -> [endpoint |-> endpoint, code |-> 200]
         [] OTHER -> [endpoint |-> endpoint, code |-> 404]

\* ------------------------------------------------------------------- state
IdleCall == [pc |-> "idle", task_id |-> None, prompt |-> None, run_id |-> None,
             result |-> "none"]
\* the invocation has returned its message; its locals are gone
Returned(result) == [pc |-> "returned", task_id |-> None, prompt |-> None,
                     run_id |-> None, result |-> result]
\* the acknowledgement of a submitted task names its id (line 297)
Submitted(task_id) == [Returned("submitted") EXCEPT !.task_id = task_id]
NoWorker == [pc |-> "none", task_id |-> None, image_url |-> None, delivery |-> "none"]

Init ==
    /\ store = <<>>
    /\ cache = <<>>
    /\ call = [c \in Calls |-> IdleCall]
    /\ worker = [c \in Calls |-> NoWorker]
    /\ inflight = [c \in Calls |-> <<>>]
    /\ clock = 1
    /\ external = 0
    /\ termWrites = [t \in TaskIds \cup HistoryIds |-> 0]
    /\ probe = [op |-> "none"]

\* ------------------------------------------------------------ generate_image
\* uuid.uuid4(): an id no row and no other invocation has
FreshId(task_id) ==
    /\ ~HasTask(store, task_id)
    /\ \A c \in Calls : call[c].task_id # task_id

\* generate_image without the early return for an existing task
GenerateCheck_NoEarlyReturn(c, prompt_arg, context_prompt, id_arg, run_id) ==
    /\ call[c].pc = "idle"
    /\ \A b \in Calls : b < c => call[b].pc # "idle"
    /\ LET prompt == IF prompt_arg # None THEN prompt_arg ELSE context_prompt
       IN IF prompt = None
          THEN call' = [call EXCEPT ![c] = Returned("validation_error")]
          ELSE \E task_id \in TaskIds :
                 /\ IF id_arg # None THEN task_id = id_arg ELSE FreshId(task_id)
                 /\ call' = [call EXCEPT ![c] =
                                [pc |-> "create", task_id |-> task_id,
                                 prompt |-> prompt, run_id |-> run_id,
                                 result |-> "none"]]
    /\ UNCHANGED <<store, cache, worker, inflight, clock, external, termWrites, probe>>

\* generate_image that goes on with an empty prompt
GenerateCheck_NoValidation(c, prompt_arg, context_prompt, id_arg, run_id) ==
    /\ call[c].pc = "idle"
    /\ \A b \in Calls : b < c => call[b].pc # "idle"
    /\ LET prompt == IF prompt_arg # None THEN prompt_arg ELSE context_prompt
       IN \E task_id \in TaskIds :
             /\ IF id_arg # None THEN task_id = id_arg ELSE FreshId(task_id)
             /\ IF HasTask(store, task_id)
                THEN call' = [call EXCEPT ![c] = Returned("exists")]
                ELSE call' = [call EXCEPT ![c] =
                                [pc |-> "create", task_id |-> task_id,
                                 prompt |-> prompt, run_id |-> run_id,
                                 result |-> "none"]]
    /\ UNCHANGED <<store, cache, worker, inflight, clock, external, termWrites, probe>>

\* generate_image up to and including the existence check (lines 226-253)
GenerateCheck(c, prompt_arg, context_prompt, id_arg, run_id) ==
    /\ call[c].pc = "idle"
    /\ \A b \in Calls : b < c => call[b].pc # "idle"
    /\ LET prompt == IF prompt_arg # None THEN prompt_arg ELSE context_prompt
       IN IF prompt = None
          THEN call' = [call EXCEPT ![c] = Returned("validation_error")]
          ELSE \E task_id \in TaskIds :
                 /\ IF id_arg # None THEN task_id = id_arg ELSE FreshId(task_id)
                 /\ IF HasTask(store, task_id)
                    THEN call' = [call EXCEPT ![c] = Returned("exists")]
                    ELSE call' = [call EXCEPT ![c] =
                                    [pc |-> "create", task_id |-> task_id,
                                     prompt |-> prompt, run_id |-> run_id,
                                     result |-> "none"]]
    /\ UNCHANGED <<store, cache, worker, inflight, clock, external, termWrites, probe>>

\* generate_image that leaves the session state to a later sync
GenerateCreate_NoSessionEntry(c) ==
    /\ call[c].pc = "create"
    /\ IF ~CreateTaskOk(store, call[c].task_id)
       THEN /\ call' = [call EXCEPT ![c] = Returned("create_failed")]
            /\ UNCHANGED <<store, worker, clock>>
       ELSE /\ store' = CreateTask(store, call[c].task_id, call[c].prompt,
                                   SessionId, call[c].run_id, clock)
            /\ worker' = [worker EXCEPT ![c] =
                            [pc |-> "start", task_id |-> call[c].task_id,
                             image_url |-> None, delivery |-> "none"]]
            /\ clock' = clock + 2
            /\ call' = [call EXCEPT ![c] = Submitted(call[c].task_id)]
    /\ UNCHANGED <<cache, inflight, external, termWrites, probe>>

\* generate_image announcing the task to the session as already processing
GenerateCreate_EntryProcessing(c) ==
    /\ call[c].pc = "create"
    /\ IF ~CreateTaskOk(store, call[c].task_id)
       THEN /\ call' = [call EXCEPT ![c] = Returned("create_failed")]
            /\ UNCHANGED <<store, cache, worker, clock>>
       ELSE LET task_info == [task_id |-> call[c].task_id, prompt |-> call[c].prompt,
                              status |-> "processing", created_at |-> IsoFormat(clock + 1)]
            IN /\ store' = CreateTask(store, call[c].task_id, call[c].prompt,
                                      SessionId, call[c].run_id, clock)
               /\ cache' = CleanupOldTasks(UpdateTaskInSessionState(cache, task_info))
               /\ worker' = [worker EXCEPT ![c] =
                               [pc |-> "start", task_id |-> call[c].task_id,
                                image_url |-> None, delivery |-> "none"]]
               /\ clock' = clock + 2
               /\ call' = [call EXCEPT ![c] = Submitted(call[c].task_id)]
    /\ UNCHANGED <<inflight, external, termWrites, probe>>

\* generate_image from create_task to its return (lines 256-300)
GenerateCreate(c) ==
    /\ call[c].pc = "create"
    /\ IF ~CreateTaskOk(store, call[c].task_id)
       THEN /\ call' = [call EXCEPT ![c] = Returned("create_failed")]
            /\ UNCHANGED <<store, cache, worker, clock>>
       ELSE LET task_info == [task_id |-> call[c].task_id, prompt |-> call[c].prompt,
                              status |-> "pending", created_at |-> IsoFormat(clock + 1)]
            IN /\ store' = CreateTask(store, call[c].task_id, call[c].prompt,
                                      SessionId, call[c].run_id, clock)
               /\ cache' = CleanupOldTasks(UpdateTaskInSessionState(cache, task_info))
               /\ worker' = [worker EXCEPT ![c] =
                               [pc |-> "start", task_id |-> call[c].task_id,
                                image_url |-> None, delivery |-> "none"]]
               /\ clock' = clock + 2
               /\ call' = [call EXCEPT ![c] = Submitted(call[c].task_id)]
    /\ UNCHANGED <<inflight, external, termWrites, probe>>

\* ------------------------------------------------------------- Task Runner
\* a worker that starts the unit of work without recording it
WorkerStart_NoWrite(c) ==
    /\ worker[c].pc = "start"
    /\ worker' = [worker EXCEPT ![c].pc = IF HasTask(store, worker[c].task_id)
                                          THEN "work" ELSE "done"]
    /\ UNCHANGED <<store, cache, call, inflight, clock, external, termWrites, probe>>

\* _async_generate_image, lines 443-447
WorkerStart(c) ==
    /\ worker[c].pc = "start"
    /\ IF ~HasTask(store, worker[c].task_id)
       THEN /\ worker' = [worker EXCEPT ![c].pc = "done"]
            /\ UNCHANGED store
       ELSE /\ store' = UpdateTask(store, worker[c].task_id, "processing", None, None, NoTime)
            /\ worker' = [worker EXCEPT ![c].pc = "work"]
    /\ UNCHANGED <<cache, call, inflight, clock, external, termWrites, probe>>

\* the unit of work returns (lines 451-458)
WorkSucceeds(c) ==
    /\ worker[c].pc = "work"
    /\ worker' = [worker EXCEPT ![c].pc = "notify", ![c].image_url = Url(worker[c].task_id)]
    /\ UNCHANGED <<store, cache, call, inflight, clock, external, termWrites, probe>>

\* an except branch that records the status only
WorkFails_NoMessage(c) ==
    /\ worker[c].pc = "work"
    /\ store' = UpdateTask(store, worker[c].task_id, "failed", None, None, NoTime)
    /\ worker' = [worker EXCEPT ![c].pc = "done"]
    /\ UNCHANGED <<cache, call, inflight, clock, external, termWrites, probe>>

\* an unit of work whose exception nothing catches: the thread dies with it
WorkFails_Uncaught(c) ==
    /\ worker[c].pc = "work"
    /\ worker' = [worker EXCEPT ![c].pc = "crashed"]
    /\ UNCHANGED <<store, cache, call, inflight, clock, external, termWrites, probe>>

\* the unit of work raises: the except branch (lines 463-465)
WorkFails(c) ==
    /\ worker[c].pc = "work"
    /\ store' = UpdateTask(store, worker[c].task_id, "failed", None, "work failed", NoTime)
    /\ worker' = [worker EXCEPT ![c].pc = "done"]
    /\ UNCHANGED <<cache, call, inflight, clock, external, termWrites, probe>>

\* -------------------------------------------------------- Completion Notifier
Payload(c) ==
    [task_id |-> worker[c].task_id, status |-> "completed",
     image_url |-> worker[c].image_url, completed_at |-> IsoFormat(clock),
     error_message |-> None]

DeliveryOutcomes == {"ack", "non200", "refused", "timeout_lost", "timeout_late"}

\* what the client sees: the else branch or the except clause taken
Seen(outcome) == IF outcome \in {"timeout_lost", "timeout_late"} THEN "timeout" ELSE outcome

\* _call_webhook whose failure branches only log
Deliver_NoFallback(c, outcome) ==
    /\ worker[c].pc = "notify"
    /\ clock' = clock + 1
    /\ IF outcome = "ack"
       THEN /\ CallbackStatusCode(store, Payload(c)) = 200
            /\ store' = CallbackStore(store, Payload(c), clock + 1)
            /\ termWrites' = [termWrites EXCEPT ![worker[c].task_id] = @ + 1]
            /\ worker' = [worker EXCEPT ![c].pc = "done", ![c].delivery = "ack"]
            /\ UNCHANGED inflight
       ELSE /\ worker' = [worker EXCEPT ![c].pc = "done", ![c].delivery = Seen(outcome)]
            /\ UNCHANGED <<store, termWrites, inflight>>
    /\ UNCHANGED <<cache, call, external, probe>>

\* _call_webhook, the POST (lines 478-494): acknowledged with 200 after the
\* receiver handled it; answered with another status; refused; or timed out,
\* the request being lost or still to be handled by the receiver
Deliver(c, outcome) ==
    /\ worker[c].pc = "notify"
    /\ clock' = clock + 1
    /\ IF outcome = "ack"
       THEN /\ CallbackStatusCode(store, Payload(c)) = 200
            /\ store' = CallbackStore(store, Payload(c), clock + 1)
            /\ termWrites' = [termWrites EXCEPT ![worker[c].task_id] = @ + 1]
            /\ worker' = [worker EXCEPT ![c].pc = "done", ![c].delivery = "ack"]
            /\ UNCHANGED inflight
       ELSE /\ inflight' = IF outcome = "timeout_late"
                           THEN [inflight EXCEPT ![c] = <<Payload(c)>>]
                           ELSE inflight
            /\ worker' = [worker EXCEPT ![c].pc = "fallback", ![c].delivery = Seen(outcome)]
            /\ UNCHANGED <<store, termWrites>>
    /\ UNCHANGED <<cache, call, external, probe>>

\* the direct Store write without the image url
Fallback_WithoutUrl(c) ==
    /\ worker[c].pc = "fallback"
    /\ store' = UpdateTask(store, worker[c].task_id, "completed", None, None, clock)
    /\ clock' = clock + 1
    /\ termWrites' = [termWrites EXCEPT ![worker[c].task_id] = @ + 1]
    /\ worker' = [worker EXCEPT ![c].pc = "done"]
    /\ UNCHANGED <<cache, call, inflight, external, probe>>

\* a notifier that posts again after a failed delivery
Fallback_Retries(c) ==
    /\ worker[c].pc = "fallback"
    /\ worker' = [worker EXCEPT ![c].pc = "notify"]
    /\ UNCHANGED <<store, cache, call, inflight, clock, external, termWrites, probe>>

\* _call_webhook, the direct Store write after a failed delivery (lines 496-526)
Fallback(c) ==
    /\ worker[c].pc = "fallback"
    /\ store' = UpdateTask(store, worker[c].task_id, "completed", worker[c].image_url,
                           None, clock)
    /\ clock' = clock + 1
    /\ termWrites' = [termWrites EXCEPT ![worker[c].task_id] = @ + 1]
    /\ worker' = [worker EXCEPT ![c].pc = "done"]
    /\ UNCHANGED <<cache, call, inflight, external, probe>>

\* ------------------------------------------------------- Completion Receiver
\* a receiver that also refreshes the session's entry of the task
ReceiveLate_UpdatesSession(c) ==
    /\ inflight[c] # <<>>
    /\ LET callback == inflight[c][1]
       IN /\ store' = CallbackStore(store, callback, clock)
          /\ termWrites' = IF CallbackStatusCode(store, callback) = 200
                           THEN [termWrites EXCEPT ![callback.task_id] = @ + 1]
                           ELSE termWrites
          /\ clock' = IF Malformed(callback.completed_at) THEN clock + 1 ELSE clock
          /\ cache' = IF HasTask(store, callback.task_id)
                      THEN UpdateTaskInSessionState(
                               cache, TaskToDict(GetTask(CallbackStore(store, callback, clock),
                                                         callback.task_id)))
                      ELSE cache
    /\ inflight' = [inflight EXCEPT ![c] = <<>>]
    /\ UNCHANGED <<call, worker, external, probe>>

\* the receiver handles a request whose sender has already timed out
ReceiveLate(c) ==
    /\ inflight[c] # <<>>
    /\ LET callback == inflight[c][1]
       IN /\ store' = CallbackStore(store, callback, clock)
          /\ termWrites' = IF CallbackStatusCode(store, callback) = 200
                           THEN [termWrites EXCEPT ![callback.task_id] = @ + 1]
                           ELSE termWrites
          /\ clock' = IF Malformed(callback.completed_at) THEN clock + 1 ELSE clock
    /\ inflight' = [inflight EXCEPT ![c] = <<>>]
    /\ UNCHANGED <<cache, call, worker, external, probe>>

\* requests other parties may send to POST /webhook/image-generation-callback
ExternalTimes == {"TZ", "bad"}      \* a 'Z'-suffixed instant, an unparsable text
ExternalErrors == {None, "upstream error"}

ExternalPayload(task_id, status, time, error_message) ==
    [task_id |-> task_id, status |-> status, image_url |-> Url(task_id),
     completed_at |-> IF time = "TZ" THEN <<"TZ", clock>> ELSE <<"bad">>,
     error_message |-> error_message]

\* image_generation_callback for a request not sent by the notifier
ExternalCallback(task_id, status, time, error_message) ==
    /\ external < MaxExternal
    /\ external' = external + 1
    /\ LET callback == ExternalPayload(task_id, status, time, error_message)
       IN /\ store' = CallbackStore(store, callback, clock)
          /\ clock' = IF Malformed(callback.completed_at) THEN clock + 1 ELSE clock
    /\ UNCHANGED <<cache, call, worker, inflight, termWrites, probe>>

\* ---------------------------------------------------------------- Reconciler
\* sync_pending_tasks (lines 322-368), session_state not None
\* a loop that leaves after the first task id
SyncEach_FirstOnly(tasks, ids, s) ==
    IF ids # <<>> /\ HasTask(s, ids[1])
    THEN UpdateTaskInSessionState(tasks, TaskToDict(GetTask(s, ids[1])))
    ELSE tasks

\* a sync that refreshes every entry of the list from the Store, the finished
\* ones included
SyncEach_RefreshesAll(tasks, ids, s) ==
    [i \in 1..Len(tasks) |->
        IF EntryId(tasks[i]) # None /\ HasTask(s, EntryId(tasks[i]))
        THEN MergeDict(tasks[i], TaskToDict(GetTask(s, EntryId(tasks[i]))))
        ELSE tasks[i]]

RECURSIVE SyncEach(_, _, _)
SyncEach(tasks, ids, s) ==
    IF ids = <<>> THEN tasks
    ELSE LET next == IF HasTask(s, ids[1])
                     THEN UpdateTaskInSessionState(tasks, TaskToDict(GetTask(s, ids[1])))
                     ELSE tasks
         IN SyncEach(next, SubSeq(ids, 2, Len(ids)), s)

IsSyncable(e) == EntryStatus(e) \in NonTerminal /\ EntryId(e) # None

PendingTaskIds(tasks) ==
    LET sel == SelectSeq(tasks, IsSyncable)
    IN [i \in 1..Len(sel) |-> EntryId(sel[i])]

\* sync_pending_tasks without the early return
SyncResult_AlwaysCleans(tasks, s) ==
    CleanupOldTasks(SyncEach(tasks, PendingTaskIds(tasks), s))

SyncResult(tasks, s) ==
    IF PendingTaskIds(tasks) = <<>> THEN tasks
    ELSE CleanupOldTasks(SyncEach(tasks, PendingTaskIds(tasks), s))

\* a summary that counts every finished task as completed
SyncSummary_FailedAsCompleted(tasks, s) ==
    LET ids == PendingTaskIds(tasks)
        found == {i \in 1..Len(ids) : HasTask(s, ids[i])}
    IN IF ids = <<>> THEN [message |-> "nothing_to_sync", reads |-> 0]
       ELSE [message |-> "synced", reads |-> Len(ids),
             updated |-> Cardinality(found),
             completed |-> Cardinality({i \in found : GetTask(s, ids[i]).status \in Terminal}),
             still_pending |-> Cardinality({i \in found :
                                   GetTask(s, ids[i]).status \in {"pending", "processing"}})]

\* sync_pending_tasks, what its message reports (lines 335-365): the counters
\* of the loop; a counter that is zero is left out of the text.  reads: the
\* get_task calls made, one for each task id of the loop
SyncSummary(tasks, s) ==
    LET ids == PendingTaskIds(tasks)
        found == {i \in 1..Len(ids) : HasTask(s, ids[i])}
    IN IF ids = <<>> THEN [message |-> "nothing_to_sync", reads |-> 0]
       ELSE [message |-> "synced", reads |-> Len(ids),
             updated |-> Cardinality(found),
             completed |-> Cardinality({i \in found : GetTask(s, ids[i]).status = "completed"}),
             still_pending |-> Cardinality({i \in found :
                                   GetTask(s, ids[i]).status \in {"pending", "processing"}})]

SyncPendingTasks ==
    /\ cache' = SyncResult(cache, store)
    /\ UNCHANGED <<store, call, worker, inflight, clock, external, termWrites, probe>>

\* check_task_status refreshing only an entry the cache already has
CheckResult_OnlyKnown(tasks, s, task_id) ==
    IF ~HasTask(s, task_id) \/ \A i \in 1..Len(tasks) : EntryId(tasks[i]) # task_id
    THEN tasks
    ELSE UpdateTaskInSessionState(tasks, TaskToDict(GetTask(s, task_id)))

\* check_task_status adding the snapshot without looking for the entry
CheckResult_Appends(tasks, s, task_id) ==
    IF ~HasTask(s, task_id) THEN tasks
    ELSE Append(tasks, TaskToDict(GetTask(s, task_id)))

\* check_task_status noting in the session that the task was not found
CheckResult_NotesUnknown(tasks, s, task_id) ==
    IF ~HasTask(s, task_id)
    THEN UpdateTaskInSessionState(tasks, [task_id |-> task_id, status |-> "not_found"])
    ELSE UpdateTaskInSessionState(tasks, TaskToDict(GetTask(s, task_id)))

\* check_task_status (lines 391-427), session_state not None
CheckResult(tasks, s, task_id) ==
    IF ~HasTask(s, task_id) THEN tasks
    ELSE UpdateTaskInSessionState(tasks, TaskToDict(GetTask(s, task_id)))

\* the message check_task_status returns (lines 398-399, 408-424)
CheckReply(s, task_id) == IF ~HasTask(s, task_id) THEN "not_found" ELSE "status_info"

CheckTaskStatus(task_id) ==
    /\ cache' = CheckResult(cache, store, task_id)
    /\ UNCHANGED <<store, call, worker, inflight, clock, external, termWrites, probe>>

\* --------------------------------------------------------------- behaviours
\* the request path, the runner, the notifier and the receiver serving it
StoreSide ==
    \/ \E c \in Calls, prompt_arg \in {None, Prompt}, context_prompt \in {None, Prompt},
          id_arg \in TaskIds \cup {None}, run_id \in RunIds :
          GenerateCheck(c, prompt_arg, context_prompt, id_arg, run_id)
    \/ \E c \in Calls : GenerateCreate(c)
    \/ \E c \in Calls : WorkerStart(c)
    \/ \E c \in Calls : WorkSucceeds(c)
    \/ \E c \in Calls : WorkFails(c)
    \/ \E c \in Calls, outcome \in DeliveryOutcomes : Deliver(c, outcome)
    \/ \E c \in Calls : Fallback(c)
    \/ \E c \in Calls : ReceiveLate(c)

\* the conversational layer calling the reconciliation tools
SessionSide ==
    \/ SyncPendingTasks
    \/ \E task_id \in TaskIds \cup HistoryIds : CheckTaskStatus(task_id)

\* the system on its own: every webhook request comes from its notifier
Next == StoreSide \/ SessionSide

Spec == Init /\ [][Next]_vars

\* the Store side alone: the reconciliation tools only read the Store
StoreSpec == Init /\ [][StoreSide]_vars

\* the Store side with the webhook endpoint open to any sender
OpenNext ==
    \/ StoreSide
    \/ \E task_id \in TaskIds, status \in Statuses, time \in ExternalTimes,
          error_message \in ExternalErrors :
          ExternalCallback(task_id, status, time, error_message)

OpenSpec == Init /\ [][OpenNext]_vars

\* ------------------------------------------------- Store writes that fail
\* _call_webhook, the direct Store write raising (a locked or unavailable
\* database): update_task rolls back and re-raises (db 175-177); raised in an
\* except clause, or again in the clause at 519-526 that repeats the write of
\* the non-200 branch, the exception leaves _call_webhook and is caught at
\* 463, whose handler writes status failed with the message (465)
FallbackRaises(c) ==
    /\ worker[c].pc = "fallback"
    /\ LET rolled_back == UpdateTaskCommitted(store, worker[c].task_id, "completed",
                                              worker[c].image_url, None, clock, "raises")
       IN store' = UpdateTask(rolled_back, worker[c].task_id, "failed", None,
                              "database is locked", NoTime)
    /\ clock' = clock + 1
    /\ worker' = [worker EXCEPT ![c].pc = "done"]
    /\ UNCHANGED <<cache, call, inflight, external, termWrites, probe>>

FaultyNext ==
    \/ StoreSide
    \/ \E c \in Calls : FallbackRaises(c)

FaultySpec == Init /\ [][FaultyNext]_vars

\* ------------------------------- one invocation, reconciler, open endpoint
\* The earlier invocations of the conversation came without a prompt and have
\* returned their validation error; the last one is still to come.
InitLastCall ==
    /\ store = <<>>
    /\ cache = <<>>
    /\ call = [c \in Calls |-> IF c < MaxCalls THEN Returned("validation_error")
                                ELSE IdleCall]
    /\ worker = [c \in Calls |-> NoWorker]
    /\ inflight = [c \in Calls |-> <<>>]
    /\ clock = 1
    /\ external = 0
    /\ termWrites = [t \in TaskIds \cup HistoryIds |-> 0]
    /\ probe = [op |-> "none"]

\* every operation of the service: the Store side, any sender at the webhook
\* endpoint, the reconciliation tools
ServiceNext == OpenNext \/ SessionSide

ServiceSpec == InitLastCall /\ [][ServiceNext]_vars

\* ---------------------------------------------- a session with a history
\* the row of the i-th earlier task: generated, completed through the webhook
HistoryRow(i) ==
    [id |-> IdOf(MaxTasks + i), prompt |-> Prompt, status |-> "completed",
     image_url |-> Url(IdOf(MaxTasks + i)), error_message |-> None,
     created_at |-> 3 * i - 2, completed_at |-> 3 * i,
     session_id |-> SessionId, run_id |-> "run-1"]

\* The Store is a file and outlives the process; the session state is kept by
\* the agent's session storage.  NHistory tasks were generated one after the
\* other, each completed and synchronised before the next was requested: the
\* last generate_image evicted the oldest entries and put its own entry first.
\* Those invocations have returned and their threads have ended; the last
\* invocation of the conversation is still to come.
InitHistory ==
    /\ store = [i \in 1..NHistory |-> HistoryRow(i)]
    /\ cache = [k \in 1..MAX_TASKS_IN_SESSION_STATE |->
                  TaskToDict(HistoryRow(NHistory + 1 - k))]
    /\ call = [c \in Calls |-> IF c < MaxCalls
                                THEN Submitted(IdOf(MaxTasks + NHistory + 1 - MaxCalls + c))
                                ELSE IdleCall]
    /\ worker = [c \in Calls |-> NoWorker]
    /\ inflight = [c \in Calls |-> <<>>]
    /\ clock = 3 * NHistory + 1
    /\ external = 0
    /\ termWrites = [t \in TaskIds \cup HistoryIds |-> 0]
    /\ probe = [op |-> "none"]

RetentionSpec == InitHistory /\ [][Next]_vars

\* ------------------------------------------- the retention policy on its own
Layouts == {"pending_first", "terminal_first", "alternating"}
Timings == {"ascending", "descending", "ties", "scattered"}

\* is the i-th of p non-terminal and q terminal entries a non-terminal one
NonTerminalAt(i, p, q, layout) ==
    CASE layout = "pending_first" -> i <= p
      [] layout = "terminal_first" -> i > q
      [] OTHER -> IF i <= 2 * Min(p, q) THEN i % 2 = 1 ELSE p > q

CreatedAt(i, n, timing) ==
    CASE timing = "ascending" -> i
      [] timing = "descending" -> n + 1 - i
      [] timing = "ties" -> (i % 3) + 1
      [] OTHER -> ((i * 7) % 11) + 1

\* a cache entry as generate_image writes it (pending) or as a sync or check
\* of a processing, completed or failed row leaves it
SessionEntry(i, status, created_at) ==
    IF status = "pending"
    THEN [task_id |-> IdOf(i), prompt |-> Prompt, status |-> "pending",
          created_at |-> IsoFormat(created_at)]
    ELSE TaskToDict([id |-> IdOf(i), prompt |-> Prompt, status |-> status,
                     image_url |-> IF status = "completed" THEN Url(IdOf(i)) ELSE None,
                     error_message |-> IF status = "failed" THEN "work failed" ELSE None,
                     created_at |-> created_at,
                     completed_at |-> IF status = "completed" THEN created_at + 1 ELSE NoTime,
                     session_id |-> SessionId, run_id |-> "run-1"])

SessionList(p, q, layout, timing) ==
    [i \in 1..(p + q) |->
        SessionEntry(i,
                     IF NonTerminalAt(i, p, q, layout)
                     THEN (IF i % 2 = 0 THEN "pending" ELSE "processing")
                     ELSE (IF i % 3 = 0 THEN "failed" ELSE "completed"),
                     CreatedAt(i, p + q, timing))]

InitEvict ==
    /\ store = <<>>
    /\ cache = <<>>
    /\ call = [c \in Calls |-> IdleCall]
    /\ worker = [c \in Calls |-> NoWorker]
    /\ inflight = [c \in Calls |-> <<>>]
    /\ clock = 1
    /\ external = 0
    /\ termWrites = [t \in TaskIds \cup HistoryIds |-> 0]
    /\ \E p \in 0..MaxPending, q \in 0..MaxTerminal, layout \in Layouts, timing \in Timings :
          probe = [op |-> "cleanup", tasks |-> SessionList(p, q, layout, timing)]

\* _cleanup_old_tasks applied to the list
Evict ==
    /\ probe.op = "cleanup"
    /\ probe' = [op |-> "cleaned", tasks |-> probe.tasks,
                 result |-> CleanupOldTasks(probe.tasks)]
    /\ UNCHANGED system

EvictSpec == InitEvict /\ [][Evict]_vars

\* ------------------------------------------ sync_pending_tasks on its own
\* what has become of the tasks of a session list since the list was written
Progresses == {"unchanged", "finished", "mixed"}

\* the status of the row of the i-th entry; "absent": the Store has no such row
RowStatus(e, i, progress) ==
    IF EntryStatus(e) \notin NonTerminal \/ progress = "unchanged" THEN EntryStatus(e)
    ELSE IF progress = "finished" THEN (IF i % 3 = 0 THEN "failed" ELSE "completed")
    ELSE CASE i % 4 = 0 -> "absent"
           [] i % 4 = 1 -> "processing"
           [] i % 4 = 2 -> "completed"
           [] OTHER -> "failed"

\* the row as create_task, the worker and the receiver leave it in that status;
\* "mixed": the row of an entry already completed was written once more since
\* (a request handled after its sender's fallback write), its completed_at moved
RowFor(e, i, progress) ==
    LET status == RowStatus(e, i, progress)
    IN [id |-> e.task_id, prompt |-> e.prompt, status |-> status,
        image_url |-> IF status = "completed" THEN Url(e.task_id) ELSE None,
        error_message |-> IF status = "failed" THEN "work failed" ELSE None,
        created_at |-> CreatedKey(e),
        completed_at |-> IF status # "completed" THEN NoTime
                         ELSE IF progress = "mixed" /\ EntryStatus(e) = "completed"
                         THEN CreatedKey(e) + 2
                         ELSE CreatedKey(e) + 1,
        session_id |-> SessionId, run_id |-> "run-1"]

IsPresentRow(r) == r.status # "absent"

StoreFor(tasks, progress) ==
    SelectSeq([i \in 1..Len(tasks) |-> RowFor(tasks[i], i, progress)], IsPresentRow)

InitSync ==
    /\ store = <<>>
    /\ cache = <<>>
    /\ call = [c \in Calls |-> IdleCall]
    /\ worker = [c \in Calls |-> NoWorker]
    /\ inflight = [c \in Calls |-> <<>>]
    /\ clock = 1
    /\ external = 0
    /\ termWrites = [t \in TaskIds \cup HistoryIds |-> 0]
    /\ \E p \in 0..MaxPending, q \in 0..MaxTerminal, layout \in Layouts,
          timing \in {"ties", "scattered"}, progress \in Progresses :
          LET tasks == SessionList(p, q, layout, timing)
          IN probe = [op |-> "sync", tasks |-> tasks, store |-> StoreFor(tasks, progress)]

\* sync_pending_tasks applied to the list
SyncFirst ==
    /\ probe.op = "sync"
    /\ probe' = [op |-> "synced", tasks |-> probe.tasks, store |-> probe.store,
                 result |-> SyncResult(probe.tasks, probe.store),
                 summary |-> SyncSummary(probe.tasks, probe.store)]
    /\ UNCHANGED system

\* sync_pending_tasks applied to what the first call left, the Store unchanged
SyncSecond ==
    /\ probe.op = "synced"
    /\ probe' = [op |-> "synced_again", tasks |-> probe.tasks, store |-> probe.store,
                 first |-> probe.result,
                 result |-> SyncResult(probe.result, probe.store),
                 summary |-> SyncSummary(probe.result, probe.store)]
    /\ UNCHANGED system

SyncNext == SyncFirst \/ SyncSecond

SyncSpec == InitSync /\ [][SyncNext]_vars

\* ------------------------------------------------ the receiver on its own
Stages == {"pending", "processing", "completed", "failed"}

\* the row of a task as create_task and its worker's writes leave it
StagedRow(task_id, stage, now) ==
    LET created == <<NewRow(task_id, Prompt, SessionId, "run-1", now)>>
        processing == UpdateTask(created, task_id, "processing", None, None, NoTime)
    IN CASE stage = "pending" -> created[1]
         [] stage = "processing" -> processing[1]
         [] stage = "completed" ->
              UpdateTask(processing, task_id, "completed", Url(task_id), None, now + 1)[1]
         [] OTHER ->
              UpdateTask(processing, task_id, "failed", None, "work failed", NoTime)[1]

\* A Store with the row of an earlier task and, or not, the row of the task
\* the request names; the request as any sender may write it.
InitReceive ==
    /\ cache = <<>>
    /\ call = [c \in Calls |-> IdleCall]
    /\ worker = [c \in Calls |-> NoWorker]
    /\ inflight = [c \in Calls |-> <<>>]
    /\ clock = 10
    /\ external = 0
    /\ termWrites = [t \in TaskIds \cup HistoryIds |-> 0]
    /\ \E task_id \in TaskIds, known \in BOOLEAN, stage \in Stages,
          status \in Statuses, time \in ExternalTimes, error_message \in ExternalErrors :
          /\ store = IF known THEN <<HistoryRow(1), StagedRow(task_id, stage, 4)>>
                     ELSE <<HistoryRow(1)>>
          /\ probe = [op |-> "callback", handled |-> 0,
                      callback |-> ExternalPayload(task_id, status, time, error_message)]

\* image_generation_callback handling the request; the sender may repeat it
Receive ==
    /\ probe.op = "callback"
    /\ probe.handled < 2
    /\ store' = CallbackStore(store, probe.callback, clock)
    /\ clock' = IF Malformed(probe.callback.completed_at) THEN clock + 1 ELSE clock
    /\ probe' = [op |-> "callback", handled |-> probe.handled + 1,
                 callback |-> probe.callback,
                 code |-> CallbackStatusCode(store, probe.callback),
                 before |-> IF probe.handled = 0 THEN store ELSE probe.before,
                 first |-> IF probe.handled = 0 THEN store' ELSE probe.first]
    /\ UNCHANGED <<cache, call, worker, inflight, external, termWrites>>

ReceiverSpec == InitReceive /\ [][Receive]_vars

\* ---------------------------------------------- update_task on its own
UpdateStatuses == Statuses \cup {None}
UpdateUrls == {None, "https://example.com/other.png"}
UpdateErrors == {None, "boom"}
UpdateTimes == {NoTime, 9}

\* A Store with the row of an earlier task and, or not, the row of the task
\* the call names, at any stage; the call with any subset of its arguments.
InitUpdate ==
    /\ cache = <<>>
    /\ call = [c \in Calls |-> IdleCall]
    /\ worker = [c \in Calls |-> NoWorker]
    /\ inflight = [c \in Calls |-> <<>>]
    /\ clock = 10
    /\ external = 0
    /\ termWrites = [t \in TaskIds \cup HistoryIds |-> 0]
    /\ \E task_id \in TaskIds, known \in BOOLEAN, stage \in Stages,
          status \in UpdateStatuses, image_url \in UpdateUrls,
          error_message \in UpdateErrors, completed_at \in UpdateTimes,
          commit \in CommitOutcomes :
          /\ store = IF known THEN <<HistoryRow(1), StagedRow(task_id, stage, 4)>>
                     ELSE <<HistoryRow(1)>>
          /\ probe = [op |-> "update", done |-> FALSE, task_id |-> task_id,
                      status |-> status, image_url |-> image_url,
                      error_message |-> error_message, completed_at |-> completed_at,
                      commit |-> commit]

Update ==
    /\ probe.op = "update"
    /\ ~probe.done
    /\ store' = UpdateTaskCommitted(store, probe.task_id, probe.status, probe.image_url,
                                    probe.error_message, probe.completed_at, probe.commit)
    /\ probe' = [probe EXCEPT !.done = TRUE] @@
                [before |-> store,
                 return |-> UpdateTaskReturn(store, probe.task_id, probe.status,
                                             probe.image_url, probe.error_message,
                                             probe.completed_at, probe.commit)]
    /\ UNCHANGED <<cache, call, worker, inflight, clock, external, termWrites>>

UpdateSpec == InitUpdate /\ [][Update]_vars

\* ------------------------------------------------ the queries on their own
\* the i-th row of a Store of tasks of several sessions and runs
QueryRow(i, n, timing) ==
    LET stage == CASE i % 4 = 0 -> "failed"
                   [] i % 2 = 1 -> "completed"
                   [] OTHER -> "pending"
        row == StagedRow(IdOf(i), stage, 2 * CreatedAt(i, n, timing))
    IN [row EXCEPT !.session_id = CASE i % 3 = 1 -> SessionId
                                    [] i % 3 = 2 -> "session-2"
                                    [] OTHER -> None,
                   !.run_id = IF (i \div 2) % 2 = 0 THEN "run-1" ELSE "run-2"]

QueryStore(n, timing) == [i \in 1..n |-> QueryRow(i, n, timing)]

StatusFilters == {None, "", "completed", "pending"}
SessionFilters == {None, SessionId, "session-2"}
RunFilters == {None, "run-1", "run-2"}
Limits == 1..(MaxRows + 1)
Offsets == 0..MaxOffset
Paths == { <<"api", "tasks">>, <<"api", "tasks", "all">>, <<"api", "tasks", IdOf(1)>>,
           <<"api", "health">> }

\* a Store, and either the arguments of the two list operations or a GET request
InitQuery ==
    /\ cache = <<>>
    /\ call = [c \in Calls |-> IdleCall]
    /\ worker = [c \in Calls |-> NoWorker]
    /\ inflight = [c \in Calls |-> <<>>]
    /\ clock = 1
    /\ external = 0
    /\ termWrites = [t \in TaskIds \cup HistoryIds |-> 0]
    /\ \E n \in 0..MaxRows, timing \in {"ties", "scattered"} : store = QueryStore(n, timing)
    /\ \E status \in StatusFilters, session_id \in SessionFilters, run_id \in RunFilters,
          limit \in Limits, offset \in Offsets :
          \/ probe = [op |-> "query", status |-> status, session_id |-> session_id,
                      run_id |-> run_id, limit |-> limit, offset |-> offset,
                      listed |-> <<>>, all |-> <<>>]
          \/ \E path \in Paths :
                probe = [op |-> "get", path |-> path, status |-> status,
                         session_id |-> session_id, run_id |-> run_id,
                         limit |-> limit, offset |-> offset, response |-> <<>>]

\* db.list_tasks(status, session_id, run_id, limit, offset)
QueryList ==
    /\ probe.op = "query" /\ probe.listed = <<>>
    /\ probe' = [probe EXCEPT !.listed =
                    <<ListTasks(store, probe.status, probe.session_id, probe.run_id,
                                probe.limit, probe.offset)>>]
    /\ UNCHANGED system

\* db.get_all_tasks(status, session_id, run_id)
QueryAll ==
    /\ probe.op = "query" /\ probe.all = <<>>
    /\ probe' = [probe EXCEPT !.all =
                    <<GetAllTasks(store, probe.status, probe.session_id, probe.run_id)>>]
    /\ UNCHANGED system

\* the app serving a GET request
ServeGet ==
    /\ probe.op = "get" /\ probe.response = <<>>
    /\ probe' = [probe EXCEPT !.response =
                    <<HttpGet(store, probe.path, probe.status, probe.session_id,
                              probe.run_id, probe.limit, probe.offset)>>]
    /\ UNCHANGED system

QueryNext == QueryList \/ QueryAll \/ ServeGet

QuerySpec == InitQuery /\ [][QueryNext]_vars

\* the worker threads run to their end; nothing else is promised
Fairness ==
    \A c \in Calls :
        /\ WF_vars(WorkerStart(c))
        /\ WF_vars(WorkSucceeds(c) \/ WorkFails(c))
        /\ WF_vars(\E outcome \in DeliveryOutcomes : Deliver(c, outcome))
        /\ WF_vars(Fallback(c))

FairSpec == StoreSpec /\ Fairness

\* ------------------------------------------- the workers of several tasks
\* The Store and the session state after the n-th of n generate_image calls
\* with fresh ids returned, and the threads those calls started.
RECURSIVE SubmittedStore(_)
SubmittedStore(n) ==
    IF n = 0 THEN <<>>
    ELSE CreateTask(SubmittedStore(n - 1), IdOf(n), Prompt, SessionId, "run-1", 2 * n - 1)

RECURSIVE SubmittedCache(_)
SubmittedCache(n) ==
    IF n = 0 THEN <<>>
    ELSE CleanupOldTasks(UpdateTaskInSessionState(
             SubmittedCache(n - 1),
             [task_id |-> IdOf(n), prompt |-> Prompt, status |-> "pending",
              created_at |-> IsoFormat(2 * n)]))

InitWorkers ==
    /\ store = SubmittedStore(MaxCalls)
    /\ cache = SubmittedCache(MaxCalls)
    /\ call = [c \in Calls |-> Submitted(IdOf(c))]
    /\ worker = [c \in Calls |-> [pc |-> "start", task_id |-> IdOf(c),
                                  image_url |-> None, delivery |-> "none"]]
    /\ inflight = [c \in Calls |-> <<>>]
    /\ clock = 2 * MaxCalls + 1
    /\ external = 0
    /\ termWrites = [t \in TaskIds \cup HistoryIds |-> 0]
    /\ probe = [op |-> "none"]

\* the threads run side by side, each its own event loop
WorkersNext ==
    \/ \E c \in Calls : WorkerStart(c)
    \/ \E c \in Calls : WorkSucceeds(c)
    \/ \E c \in Calls : WorkFails(c)
    \/ \E c \in Calls, outcome \in DeliveryOutcomes : Deliver(c, outcome)
    \/ \E c \in Calls : Fallback(c)
    \/ \E c \in Calls : ReceiveLate(c)

WorkersSpec == InitWorkers /\ [][WorkersNext]_vars /\ Fairness

\* ------------------------------------------------------------------- claims
RowOfWorker(c) == GetTask(store, worker[c].task_id)
Rank(status) == CASE status = "pending" -> 0
                  [] status = "processing" -> 1
                  [] OTHER -> 2
WorkersOf(task_id) == {c \in Calls : worker[c].pc # "none" /\ worker[c].task_id = task_id}
FailedDeliveries == {"non200", "refused", "timeout"}
Range(seq) == {seq[i] : i \in 1..Len(seq)}

\* C1: the status of a row only moves forward along pending -> processing ->
\* {completed | failed}, and a completed or failed row keeps its status.
C1_StatusMonotone ==
    [][\A i \in 1..Len(store) :
          /\ Rank(store'[i].status) >= Rank(store[i].status)
          /\ store[i].status \in Terminal => store'[i].status = store[i].status]_vars

\* C2: once a task's worker has been started, the task's row eventually is
\* completed or failed and stays so.
C2_EventuallyTerminal ==
    \A c \in Calls :
        (worker[c].pc = "start") ~>
            [](HasTask(store, worker[c].task_id) /\ RowOfWorker(c).status \in Terminal)

C2_Witness ==
    \E c \in Calls : worker[c].pc = "done" /\ RowOfWorker(c).status \in Terminal

\* C3: a worker whose unit of work succeeded and whose webhook delivery failed
\* leaves the row completed, with the image url the worker produced.
C3_FallbackCompletes ==
    \A c \in Calls :
        (worker[c].pc = "done" /\ worker[c].delivery \in FailedDeliveries)
            => /\ RowOfWorker(c).status = "completed"
               /\ RowOfWorker(c).image_url = worker[c].image_url
               /\ worker[c].image_url = Url(worker[c].task_id)

C3_Witness ==
    \E c \in Calls : worker[c].pc = "done" /\ worker[c].delivery = "timeout"

\* C4: a row has completed_at exactly when its status is completed or failed.
C4_CompletedAtIffTerminal ==
    \A i \in 1..Len(store) :
        (store[i].completed_at # NoTime) <=> (store[i].status \in Terminal)

\* C5: a row with a non-empty image_url is completed, a row with a non-empty
\* error_message is failed.
C5_ResultImpliesStatus ==
    \A i \in 1..Len(store) :
        /\ store[i].image_url \notin {None, ""} => store[i].status = "completed"
        /\ store[i].error_message \notin {None, ""} => store[i].status = "failed"

\* C6: when the unit of work succeeded, notifier and receiver together write
\* the terminal state of the task exactly once.
C6_TerminalWrittenOnce ==
    \A c \in Calls :
        (worker[c].pc = "done" /\ worker[c].image_url # None)
            => termWrites[worker[c].task_id] = 1

\* C7: generate_image naming an id the Store already has is refused at the
\* existence check: no row is added or changed, no worker is started.
C7_ExistingIdRefused ==
    [][\A c \in Calls, id_arg \in TaskIds :
          (/\ HasTask(store, id_arg)
           /\ \E prompt_arg \in {None, Prompt}, context_prompt \in {None, Prompt},
                 run_id \in RunIds :
                 /\ prompt_arg # None \/ context_prompt # None
                 /\ GenerateCheck(c, prompt_arg, context_prompt, id_arg, run_id))
          => /\ call'[c] = Returned("exists")
             /\ store' = store
             /\ worker' = worker]_vars

C7_Witness ==
    \E c \in Calls : call[c].result = "exists"

\* C8: when two invocations with the same new id both pass the existence
\* check, the Store gets one row for the id and one worker is started; the
\* invocation whose insert is rejected returns an error and starts nothing.
C8_OneRowOneWorker ==
    /\ \A t \in TaskIds : Cardinality(RowsOf(store, t)) <= 1
    /\ \A t \in TaskIds : Cardinality(WorkersOf(t)) <= 1
    /\ \A c \in Calls : call[c].result = "create_failed" => worker[c].pc = "none"

C8_Witness ==
    \E c, d \in Calls :
        /\ call[c].result = "create_failed" /\ call[d].result = "submitted"
        /\ \E t \in TaskIds : WorkersOf(t) = {d} /\ Cardinality(RowsOf(store, t)) = 1

\* C9: the cache never holds more entries than the cap, or than its
\* non-terminal entries when these alone exceed the cap.
C9_CacheBounded ==
    Len(cache) <= Max(MAX_TASKS_IN_SESSION_STATE, Len(SelectSeq(cache, IsPendingEntry)))

\* C10: eviction of a list of more than MAX_TASKS_IN_SESSION_STATE (20)
\* entries, p of them non-terminal, keeps exactly the p non-terminal entries
\* and the max(0, 20 - p) terminal entries with the greatest created_at, so
\* that min(n, max(20, p)) entries remain.
C10_EvictionKeeps ==
    (probe.op = "cleaned" /\ Len(probe.tasks) > MAX_TASKS_IN_SESSION_STATE) =>
        LET pending == SelectSeq(probe.tasks, IsPendingEntry)
            terminal == SelectSeq(probe.tasks, IsCompletedEntry)
            kept == SelectSeq(probe.result, IsCompletedEntry)
        IN /\ SelectSeq(probe.result, IsPendingEntry) = pending
           /\ Len(kept) = Max(0, MAX_TASKS_IN_SESSION_STATE - Len(pending))
           /\ Cardinality(Range(kept)) = Len(kept)
           /\ Range(kept) \subseteq Range(terminal)
           /\ \A k \in Range(kept), d \in Range(terminal) \ Range(kept) :
                  CreatedKey(k) >= CreatedKey(d)
           /\ Len(probe.result) =
                  Min(Len(probe.tasks), Max(MAX_TASKS_IN_SESSION_STATE, Len(pending)))

C10_Witness ==
    /\ probe.op = "cleaned"
    /\ Len(SelectSeq(probe.tasks, IsPendingEntry)) = 5
    /\ Len(SelectSeq(probe.tasks, IsCompletedEntry)) = 30
    /\ Len(SelectSeq(probe.result, IsPendingEntry)) = 5
    /\ Len(SelectSeq(probe.result, IsCompletedEntry)) = 15

\* C11: eviction removes no entry whose status is pending or processing, and
\* when the non-terminal entries alone are more than the cap it keeps all of
\* them and no terminal entry.
C11_EvictionSparesPending ==
    probe.op = "cleaned" =>
        LET pending == SelectSeq(probe.tasks, IsPendingEntry)
        IN /\ SelectSeq(probe.result, IsPendingEntry) = pending
           /\ Len(pending) > MAX_TASKS_IN_SESSION_STATE => probe.result = pending

C11_Witness ==
    /\ probe.op = "cleaned"
    /\ Len(SelectSeq(probe.tasks, IsPendingEntry)) = MAX_TASKS_IN_SESSION_STATE + 2
    /\ Len(SelectSeq(probe.tasks, IsCompletedEntry)) = 3
    /\ Len(probe.result) = MAX_TASKS_IN_SESSION_STATE + 2

\* C12: sync_pending_tasks called twice in a row with no Store change in
\* between leaves the same cache after the second call as after the first:
\* same entries, same field values, same order.
C12_SyncIdempotent ==
    probe.op = "synced_again" => probe.result = probe.first

C12_Witness ==
    /\ probe.op = "synced_again"
    /\ Len(probe.first) < Len(probe.tasks)
    /\ PendingTaskIds(probe.first) # <<>>
    /\ \E i \in 1..Len(probe.first) :
          /\ IsCompletedEntry(probe.first[i])
          /\ \E j \in 1..Len(probe.tasks) :
                /\ EntryId(probe.tasks[j]) = EntryId(probe.first[i])
                /\ IsPendingEntry(probe.tasks[j])

\* does the dict carry a value for the key: the key is there and is not None
Known(e, k) ==
    /\ k \in DOMAIN e
    /\ IF k \in {"created_at", "completed_at"} THEN e[k] # IsoNone ELSE e[k] # None

\* new is old after the upsert of snap
UpsertMerged(old, new, snap) ==
    LET hits == {i \in 1..Len(old) : EntryId(old[i]) = snap.task_id}
    IN IF hits = {}
       THEN new = Append(old, snap)
       ELSE LET i == CHOOSE h \in hits : \A j \in hits : h <= j
            IN /\ Len(new) = Len(old)
               /\ \A j \in 1..Len(old) : j # i => new[j] = old[j]
               /\ DOMAIN new[i] = DOMAIN old[i] \cup DOMAIN snap
               /\ \A k \in DOMAIN snap : Known(snap, k) => new[i][k] = snap[k]
               /\ \A k \in DOMAIN old[i] :
                     (Known(old[i], k) /\ ~Known(snap, k)) => new[i][k] = old[i][k]

EntryEqualsRow(e, r) ==
    /\ DOMAIN e = {"task_id", "prompt", "status", "image_url", "error_message",
                   "created_at", "completed_at", "session_id", "run_id"}
    /\ e.task_id = r.id /\ e.prompt = r.prompt /\ e.status = r.status
    /\ e.image_url = r.image_url /\ e.error_message = r.error_message
    /\ e.session_id = r.session_id /\ e.run_id = r.run_id
    /\ e.created_at = <<"T", r.created_at>>
    /\ e.completed_at = IF r.completed_at = NoTime THEN IsoNone ELSE <<"T", r.completed_at>>

InCache(tasks, task_id) == \E i \in 1..Len(tasks) : EntryId(tasks[i]) = task_id

\* C14: check_task_status for a task the Store has and the cache has not
\* adds an entry with the fields of the Store's row and leaves the other
\* entries alone; for an id the Store does not have it reports not-found and
\* the cache stays as it is.  Stated of the call made in any reachable state.
C14_CheckInsertsOrNotFound ==
    \A task_id \in TaskIds \cup HistoryIds :
        LET after == CheckResult(cache, store, task_id)
        IN /\ (HasTask(store, task_id) /\ ~InCache(cache, task_id)) =>
                 /\ CheckReply(store, task_id) = "status_info"
                 /\ Len(after) = Len(cache) + 1
                 /\ SubSeq(after, 1, Len(cache)) = cache
                 /\ EntryEqualsRow(after[Len(after)], GetTask(store, task_id))
           /\ ~HasTask(store, task_id) =>
                 /\ CheckReply(store, task_id) = "not_found"
                 /\ after = cache

C14_Witness ==
    /\ cache # <<>>
    /\ EntryId(cache[Len(cache)]) \in HistoryIds
    /\ ~InCache(SubSeq(cache, 1, MAX_TASKS_IN_SESSION_STATE), EntryId(cache[Len(cache)]))
    /\ Len(cache) > MAX_TASKS_IN_SESSION_STATE
    /\ \E task_id \in TaskIds : ~HasTask(store, task_id)

\* a step of the background worker, of the notifier or of the receiver
RunnerNotifierReceiverStep ==
    \/ \E c \in Calls : WorkerStart(c) \/ WorkSucceeds(c) \/ WorkFails(c)
    \/ \E c \in Calls, outcome \in DeliveryOutcomes : Deliver(c, outcome)
    \/ \E c \in Calls : Fallback(c) \/ ReceiveLate(c)
    \/ \E task_id \in TaskIds, status \in Statuses, time \in ExternalTimes,
          error_message \in ExternalErrors :
          ExternalCallback(task_id, status, time, error_message)

\* a step of one of the three tools given the session state
SessionToolStep ==
    \/ \E c \in Calls : GenerateCreate(c)
    \/ SyncPendingTasks
    \/ \E task_id \in TaskIds \cup HistoryIds : CheckTaskStatus(task_id)

\* C15: no step of the background worker, of the notifier (delivery or
\* fallback write) or of the receiver changes the session cache; the cache
\* changes only inside generate_image, sync_pending_tasks and check_task_status.
C15_CacheOnlyByTools ==
    [][/\ RunnerNotifierReceiverStep => cache' = cache
       /\ cache' # cache => SessionToolStep]_vars

C15_Witness ==
    \E c \in Calls :
        /\ worker[c].pc = "done" /\ worker[c].delivery = "timeout"
        /\ inflight[c] = <<>>
        /\ termWrites[worker[c].task_id] = 2
        /\ RowOfWorker(c).status = "completed"
        /\ \E i \in 1..Len(cache) :
              EntryId(cache[i]) = worker[c].task_id /\ EntryStatus(cache[i]) = "pending"

\* C16: the receiver is idempotent: the same terminal payload applied twice
\* leaves the same row after the second application as after the first, for
\* every payload, a malformed completed_at included.
C16_ReceiverIdempotent ==
    (probe.op = "callback" /\ probe.handled = 2 /\ probe.callback.status \in Terminal)
        => store = probe.first

\* C17: a callback whose task id the Store does not have is answered with 404
\* and leaves the Store as it was: no row created, no row modified.
C17_UnknownIdNotFound ==
    (probe.op = "callback" /\ probe.handled >= 1
        /\ ~HasTask(probe.before, probe.callback.task_id))
        => /\ probe.code = 404
           /\ store = probe.before

C17_Witness ==
    /\ probe.op = "callback" /\ probe.handled = 1
    /\ ~HasTask(store, probe.callback.task_id)
    /\ store # <<>>
    /\ probe.code = 404

\* the row passes every filter that was given (None and the empty string are
\* no filter)
PassesFilters(r, status, session_id, run_id) ==
    /\ status \in {None, ""} \/ r.status = status
    /\ session_id \in {None, ""} \/ r.session_id = session_id
    /\ run_id \in {None, ""} \/ r.run_id = run_id

Matching == {i \in 1..Len(store) :
                PassesFilters(store[i], probe.status, probe.session_id, probe.run_id)}

\* C18: list_tasks returns at most limit rows, by created_at descending, the
\* rows at positions offset .. offset+limit-1 of the filtered ordering, and a
\* total that counts all rows passing the filters whatever limit and offset.
C18_ListPage ==
    (probe.op = "query" /\ probe.listed # <<>>) =>
        LET total == probe.listed[1].total
            tasks == probe.listed[1].tasks
            Newer(t) == {i \in Matching : store[i].created_at > t}
            NotOlder(t) == {i \in Matching : store[i].created_at >= t}
        IN /\ total = Cardinality(Matching)
           /\ Len(tasks) <= probe.limit
           /\ Len(tasks) = Max(0, Min(probe.limit, total - probe.offset))
           /\ \A k \in 1..Len(tasks) : \E i \in Matching : store[i] = tasks[k]
           /\ \A k, l \in 1..Len(tasks) :
                 k < l => /\ tasks[k].created_at >= tasks[l].created_at
                          /\ tasks[k].id # tasks[l].id
           /\ \A k \in 1..Len(tasks) :
                 /\ Cardinality(Newer(tasks[k].created_at)) <= probe.offset + k - 1
                 /\ Cardinality(NotOlder(tasks[k].created_at)) >= probe.offset + k

C18_Witness ==
    /\ probe.op = "query" /\ probe.listed # <<>>
    /\ probe.offset = 1 /\ probe.limit = 2
    /\ probe.listed[1].total = 4
    /\ Len(probe.listed[1].tasks) = 2
    /\ probe.listed[1].tasks[1].created_at = probe.listed[1].tasks[2].created_at

\* C19: the filters of list_tasks and get_all_tasks are conjunctive, and
\* get_all_tasks returns the total and the ordered rows that list_tasks
\* returns for the same filters with offset 0 and a limit of at least the total.
C19_ListAllAgrees ==
    (probe.op = "query" /\ probe.listed # <<>> /\ probe.all # <<>>) =>
        LET listed == probe.listed[1]
            all == probe.all[1]
        IN /\ \A k \in 1..Len(listed.tasks) : \E i \in Matching : store[i] = listed.tasks[k]
           /\ \A k \in 1..Len(all.tasks) : \E i \in Matching : store[i] = all.tasks[k]
           /\ \A i \in Matching : \E k \in 1..Len(all.tasks) : all.tasks[k] = store[i]
           /\ all.total = Cardinality(Matching)
           /\ all.total = listed.total
           /\ (probe.offset = 0 /\ probe.limit >= all.total) => all.tasks = listed.tasks

C19_Witness ==
    /\ probe.op = "query" /\ probe.listed # <<>> /\ probe.all # <<>>
    /\ probe.status = "completed" /\ probe.run_id = "run-1" /\ probe.session_id = None
    /\ probe.offset = 0 /\ probe.limit >= 2
    /\ probe.all[1].total = 2
    /\ Len(probe.listed[1].tasks) = 2
    /\ Len(store) = 5

\* C20: GET /api/tasks/all is served by the list-all operation and returns
\* every task passing the filters; it is not answered by get-task-by-id.
C20_ListAllRouted ==
    (probe.op = "get" /\ probe.path = <<"api", "tasks", "all">> /\ probe.response # <<>>) =>
        LET all == GetAllTasks(store, probe.status, probe.session_id, probe.run_id)
        IN /\ probe.response[1].endpoint = "get_all_tasks"
           /\ probe.response[1].code = 200
           /\ probe.response[1].total = all.total
           /\ probe.response[1].tasks = TaskList(all.tasks)

\* C21: update_task changes only the fields supplied in the call and leaves
\* every other field of that row and every other row as they were; for an
\* unknown id it returns None (not found) and changes nothing; when the
\* commit raises, the Store is as before the call.
C21_UpdateOnlySupplied ==
    (probe.op = "update" /\ probe.done) =>
        LET before == probe.before
            known == HasTask(before, probe.task_id)
        IN /\ Len(store) = Len(before)
           /\ \A i \in 1..Len(before) : before[i].id # probe.task_id => store[i] = before[i]
           /\ ~known => (store = before /\ probe.return = None)
           /\ (known /\ probe.commit = "raises") => (store = before /\ probe.return = "raised")
           /\ (known /\ probe.commit = "ok") =>
                LET old == GetTask(before, probe.task_id)
                    new == GetTask(store, probe.task_id)
                IN /\ probe.return = new
                   /\ new.status = IF probe.status # None THEN probe.status ELSE old.status
                   /\ new.image_url = IF probe.image_url # None THEN probe.image_url
                                      ELSE old.image_url
                   /\ new.error_message = IF probe.error_message # None
                                          THEN probe.error_message ELSE old.error_message
                   /\ new.completed_at = IF probe.completed_at # NoTime
                                         THEN probe.completed_at ELSE old.completed_at
                   /\ new.id = old.id /\ new.prompt = old.prompt
                   /\ new.created_at = old.created_at
                   /\ new.session_id = old.session_id /\ new.run_id = old.run_id

\* a call that supplies only a status to a completed row, committed
C21_Witness ==
    /\ probe.op = "update" /\ probe.done /\ probe.commit = "ok"
    /\ HasTask(store, probe.task_id)
    /\ probe.status = "failed" /\ probe.image_url = None
    /\ probe.error_message = None /\ probe.completed_at = NoTime
    /\ GetTask(store, probe.task_id).status = "failed"
    /\ GetTask(store, probe.task_id).image_url = Url(probe.task_id)
    /\ GetTask(store, probe.task_id).completed_at # NoTime

\* C22: once a row is created its prompt, created_at, session_id and run_id
\* never change and the row is never removed from the Store, whatever the
\* worker, the notifier, the receiver (for any sender) and the reconciler do.
C22_RowIdentityKept ==
    [][/\ Len(store') >= Len(store)
       /\ \A i \in 1..Len(store) :
             /\ store'[i].id = store[i].id
             /\ store'[i].prompt = store[i].prompt
             /\ store'[i].created_at = store[i].created_at
             /\ store'[i].session_id = store[i].session_id
             /\ store'[i].run_id = store[i].run_id]_vars

\* the row after its worker, a callback of another sender and a sync wrote
C22_Witness ==
    \E c \in Calls :
        /\ worker[c].pc = "done"
        /\ external >= 1
        /\ termWrites[worker[c].task_id] >= 2
        /\ RowOfWorker(c).prompt = Prompt
        /\ RowOfWorker(c).session_id = SessionId
        /\ RowOfWorker(c).run_id \in RunIds
        /\ \E i \in 1..Len(cache) :
              EntryId(cache[i]) = worker[c].task_id /\ EntryStatus(cache[i]) \in Terminal

StepOfWorker(c) == worker'[c] # worker[c] \/ inflight'[c] # inflight[c]

\* C24: workers are isolated: a step of the worker of task A changes no row
\* but A's; after the unit of work of A raised, the worker of every other
\* task B still ends with B's row completed or failed; and the exception of A
\* is caught inside its thread, which ends normally.
C24_WorkersIsolated ==
    /\ [][\A c \in Calls : StepOfWorker(c) =>
             /\ Len(store') = Len(store)
             /\ \A i \in 1..Len(store) :
                   store[i].id # worker[c].task_id => store'[i] = store[i]]_vars
    /\ \A a, b \in Calls :
          (a # b /\ worker[a].pc = "done" /\ worker[a].delivery = "none")
              ~> (worker[b].pc = "done" /\ RowOfWorker(b).status \in Terminal)
    /\ [](\A c \in Calls : worker[c].pc \in {"start", "work", "notify", "fallback", "done"})

\* the unit of work of one task raised while the other task was processing,
\* and the other task is completed
C24_Witness ==
    \E a, b \in Calls :
        /\ a # b
        /\ worker[a].pc = "done" /\ worker[a].delivery = "none"
        /\ RowOfWorker(a).status = "failed"
        /\ worker[b].pc = "done" /\ worker[b].delivery = "ack"
        /\ RowOfWorker(b).status = "completed"
        /\ RowOfWorker(b).error_message = None

\* C25: a Store query for a task issued right after generate_image returned,
\* before the caller does anything else, shows status pending, however the
\* caller and the task's worker thread interleave.
C25_ImmediateQueryPending ==
    \A c \in Calls :
        (/\ call[c].result = "submitted"
         /\ \A b \in Calls : b > c => call[b].pc = "idle")
            => TaskToDict(GetTask(store, worker[c].task_id)).status = "pending"

\* C26: a successful generate_image call returns without waiting for a step
\* of the worker: at its return the Store has the row of the task, created
\* pending; the session cache has one entry for the id, pending; one worker
\* has been started and has not yet taken a step; the acknowledgement
\* carries the task id.
C26_SubmitReturnsAtOnce ==
    [][\A c \in Calls :
          (call[c].pc = "create" /\ call'[c].result = "submitted") =>
             LET task_id == call[c].task_id
             IN /\ call'[c].pc = "returned" /\ call'[c].task_id = task_id
                /\ ~HasTask(store, task_id)
                /\ Cardinality(RowsOf(store', task_id)) = 1
                /\ GetTask(store', task_id).status = "pending"
                /\ GetTask(store', task_id).prompt = call[c].prompt
                /\ Cardinality({i \in 1..Len(cache') : EntryId(cache'[i]) = task_id}) = 1
                /\ \A i \in 1..Len(cache') :
                      EntryId(cache'[i]) = task_id => EntryStatus(cache'[i]) = "pending"
                /\ worker[c] = NoWorker
                /\ worker'[c].pc = "start" /\ worker'[c].task_id = task_id
                /\ \A b \in Calls : b # c => worker'[b] = worker[b]]_vars

C26_Witness ==
    \E c \in Calls :
        /\ call[c] = Submitted(IdOf(1))
        /\ worker[c].pc = "start" /\ worker[c].task_id = IdOf(1)
        /\ GetTask(store, IdOf(1)).status = "pending"
        /\ Len(cache) = 1 /\ EntryId(cache[1]) = IdOf(1)

\* C27: generate_image with no prompt argument and no prompt to be found in
\* the context returns the validation error and does nothing else: no row is
\* created, the session cache is as it was, no worker is started.
C27_NoPromptRefused ==
    [][\A c \in Calls :
          (\E id_arg \in TaskIds \cup {None}, run_id \in RunIds :
               GenerateCheck(c, None, None, id_arg, run_id))
          => /\ call'[c] = Returned("validation_error")
             /\ store' = store
             /\ cache' = cache
             /\ worker' = worker]_vars

\* the refusal came after another task had been submitted
C27_Witness ==
    \E c, d \in Calls :
        /\ call[c].result = "validation_error"
        /\ call[d].result = "submitted"
        /\ Len(store) = 1 /\ Len(cache) = 1
        /\ worker[c] = NoWorker

\* C28: the runner's first Store write moves a row to processing only from
\* pending: when the row is no longer pending as the worker starts (a
\* completion callback for the id was applied first), the worker leaves the
\* row as it is.
C28_ProcessingOnlyFromPending ==
    [][\A c \in Calls :
          (/\ worker[c].pc = "start" /\ worker'[c].pc = "work"
           /\ GetTask(store, worker[c].task_id).status # "pending")
          => store' = store]_vars

\* the position of a worker in _async_generate_image and _call_webhook
StepRank(pc) ==
    CASE pc = "none" -> 0 [] pc = "start" -> 1 [] pc = "work" -> 2
      [] pc = "notify" -> 3 [] pc = "fallback" -> 4 [] OTHER -> 5

\* C29: within one task the steps of the worker are totally ordered: the
\* write of status processing comes before the unit of work, the unit of work
\* before the webhook delivery attempt, the attempt before any fallback or
\* failure write; no terminal write of the worker or its notifier comes
\* before the processing write.
C29_WorkerStepsOrdered ==
    /\ [][\A c \in Calls : StepRank(worker'[c].pc) >= StepRank(worker[c].pc)]_vars
    /\ [](\A c \in Calls : worker[c].pc # "none" =>
            LET r == RowOfWorker(c)
                t == worker[c].task_id
                unfinished == /\ worker[c].image_url = None
                              /\ worker[c].delivery = "none"
                              /\ termWrites[t] = 0
            IN /\ worker[c].pc = "start" => (r.status = "pending" /\ unfinished)
               /\ worker[c].pc = "work" => (r.status = "processing" /\ unfinished)
               /\ worker[c].pc = "notify" =>
                     /\ r.status = "processing" /\ worker[c].image_url # None
                     /\ worker[c].delivery = "none" /\ termWrites[t] = 0
               /\ worker[c].pc = "fallback" =>
                     /\ worker[c].image_url # None
                     /\ worker[c].delivery \in FailedDeliveries
                     /\ r.status = "processing" \/ (r.status = "completed" /\ termWrites[t] = 1)
               /\ worker[c].pc = "done" => r.status \in Terminal
               /\ r.status \in Terminal => worker[c].pc \in {"fallback", "done"}
               /\ r.status = "failed" => unfinished
               /\ r.status = "completed" => worker[c].delivery # "none")

\* a delivery that failed, followed by the fallback write
C29_Witness ==
    \E c \in Calls :
        /\ worker[c].pc = "done" /\ worker[c].delivery = "refused"
        /\ RowOfWorker(c).status = "completed"
        /\ termWrites[worker[c].task_id] = 1

\* C30: after sync_pending_tasks returned, every entry that was pending or
\* processing before the call, whose task the Store has and which is still
\* in the cache, carries the status, image_url, error_message, created_at and
\* completed_at of the Store's row.
C30_SyncedEntriesMatchStore ==
    probe.op = "synced" =>
        \A i \in 1..Len(probe.tasks) :
            (IsSyncable(probe.tasks[i]) /\ HasTask(probe.store, EntryId(probe.tasks[i]))) =>
                LET r == GetTask(probe.store, EntryId(probe.tasks[i]))
                IN \A j \in 1..Len(probe.result) :
                      EntryId(probe.result[j]) = r.id =>
                          LET e == probe.result[j]
                          IN /\ {"status", "image_url", "error_message", "created_at",
                                  "completed_at"} \subseteq DOMAIN e
                             /\ e.status = r.status
                             /\ e.image_url = r.image_url
                             /\ e.error_message = r.error_message
                             /\ e.created_at = <<"T", r.created_at>>
                             /\ e.completed_at = IF r.completed_at = NoTime THEN IsoNone
                                                 ELSE <<"T", r.completed_at>>

\* two pending entries were synced, one to completed and one to failed, while
\* a third task had no row
C30_Witness ==
    /\ probe.op = "synced"
    /\ \E i, j \in 1..Len(probe.result) :
          /\ EntryStatus(probe.result[i]) = "completed"
          /\ EntryStatus(probe.result[j]) = "failed"
          /\ \E a, b \in 1..Len(probe.tasks) :
                /\ IsSyncable(probe.tasks[a]) /\ IsSyncable(probe.tasks[b])
                /\ EntryId(probe.tasks[a]) = EntryId(probe.result[i])
                /\ EntryId(probe.tasks[b]) = EntryId(probe.result[j])
    /\ \E a \in 1..Len(probe.tasks) :
          IsSyncable(probe.tasks[a]) /\ ~HasTask(probe.store, EntryId(probe.tasks[a]))

\* the non-terminal entries of the list whose task the Store has
FoundInStore(tasks, s) ==
    {i \in 1..Len(tasks) : IsSyncable(tasks[i]) /\ HasTask(s, EntryId(tasks[i]))}

\* C31: the summary of sync_pending_tasks reports updated = the number of
\* non-terminal entries found in the Store, now-completed = those whose row
\* is completed, still-pending = those whose row is pending or processing,
\* and every updated task is counted as now-completed or as still-pending.
C31_SummaryCounts ==
    (probe.op = "synced" /\ probe.summary.message = "synced") =>
        LET found == FoundInStore(probe.tasks, probe.store)
            StatusOf(i) == GetTask(probe.store, EntryId(probe.tasks[i])).status
        IN /\ probe.summary.updated = Cardinality(found)
           /\ probe.summary.completed =
                 Cardinality({i \in found : StatusOf(i) = "completed"})
           /\ probe.summary.still_pending =
                 Cardinality({i \in found : StatusOf(i) \in NonTerminal})
           /\ probe.summary.updated = probe.summary.completed + probe.summary.still_pending

\* C31 as amended: the three counts are as stated, and an updated task is
\* counted as now-completed, as still-pending, or, when its row is failed,
\* in neither.
C31_SummaryCountsAmended ==
    (probe.op = "synced" /\ probe.summary.message = "synced") =>
        LET found == FoundInStore(probe.tasks, probe.store)
            StatusOf(i) == GetTask(probe.store, EntryId(probe.tasks[i])).status
        IN /\ probe.summary.updated = Cardinality(found)
           /\ probe.summary.completed =
                 Cardinality({i \in found : StatusOf(i) = "completed"})
           /\ probe.summary.still_pending =
                 Cardinality({i \in found : StatusOf(i) \in NonTerminal})
           /\ probe.summary.updated =
                 probe.summary.completed + probe.summary.still_pending
                 + Cardinality({i \in found : StatusOf(i) = "failed"})

\* a sync that found completed, processing and failed rows, and missed one
C31_Witness ==
    /\ probe.op = "synced" /\ probe.summary.message = "synced"
    /\ probe.summary.completed >= 1 /\ probe.summary.still_pending >= 1
    /\ probe.summary.updated > probe.summary.completed + probe.summary.still_pending
    /\ probe.summary.updated < Len(PendingTaskIds(probe.tasks))

\* C32: sync_pending_tasks on a cache with no pending or processing entry is
\* a no-op: it reads no row of the Store and leaves the cache as it was
\* (entries, fields, order), whatever the size of the cache.
C32_SyncNothingPending ==
    (/\ probe.op = "synced"
     /\ \A i \in 1..Len(probe.tasks) : EntryStatus(probe.tasks[i]) \notin NonTerminal)
        => /\ probe.result = probe.tasks
           /\ probe.summary.message = "nothing_to_sync"
           /\ probe.summary.reads = 0

\* a cache of terminal entries only, above the cap and not in retention order
C32_Witness ==
    /\ probe.op = "synced"
    /\ Len(probe.tasks) > MAX_TASKS_IN_SESSION_STATE
    /\ \A i \in 1..Len(probe.tasks) : EntryStatus(probe.tasks[i]) \in Terminal
    /\ probe.result = probe.tasks
    /\ CleanupOldTasks(probe.tasks) # probe.tasks

\* C33: the notifier attempts the webhook delivery at most once per task:
\* once an attempt has been made its outcome stands and no further request
\* is sent; after a failed or timed-out attempt the worker's next step is the
\* direct Store write, which ends the worker.
C33_DeliveredAtMostOnce ==
    [][\A c \in Calls :
          /\ worker[c].delivery # "none" =>
                /\ worker'[c].delivery = worker[c].delivery
                /\ worker'[c].pc # "notify"
                /\ inflight[c] = <<>> => inflight'[c] = <<>>
          /\ (worker[c].pc = "fallback" /\ worker'[c] # worker[c]) =>
                /\ worker'[c].pc = "done"
                /\ GetTask(store', worker[c].task_id).status = "completed"
                /\ termWrites'[worker[c].task_id] = termWrites[worker[c].task_id] + 1]_vars

\* the request timed out, was handled late, and the direct write followed
C33_Witness ==
    \E c \in Calls :
        /\ worker[c].pc = "done" /\ worker[c].delivery = "timeout"
        /\ inflight[c] = <<>>
        /\ termWrites[worker[c].task_id] = 2

\* the position of an entry in a list of entries of distinct task ids
IndexOf(tasks, e) == CHOOSE i \in 1..Len(tasks) : tasks[i] = e

\* C34: among the terminal entries eviction orders by created_at descending
\* and keeps the original relative order of entries of equal created_at, so
\* of a group of equal created_at that fits only in part under the cap, the
\* entries earlier in the original list are the ones kept.
C34_EvictionStable ==
    (probe.op = "cleaned" /\ Len(probe.tasks) > MAX_TASKS_IN_SESSION_STATE) =>
        LET terminal == SelectSeq(probe.tasks, IsCompletedEntry)
            kept == SelectSeq(probe.result, IsCompletedEntry)
        IN /\ \A i, j \in 1..Len(kept) :
                 i < j => \/ CreatedKey(kept[i]) > CreatedKey(kept[j])
                          \/ /\ CreatedKey(kept[i]) = CreatedKey(kept[j])
                             /\ IndexOf(probe.tasks, kept[i]) < IndexOf(probe.tasks, kept[j])
           /\ \A k \in Range(kept), d \in Range(terminal) \ Range(kept) :
                 CreatedKey(k) = CreatedKey(d) =>
                     IndexOf(probe.tasks, k) < IndexOf(probe.tasks, d)

\* a group of equal created_at of which some entries are kept and some dropped
C34_Witness ==
    /\ probe.op = "cleaned"
    /\ LET terminal == SelectSeq(probe.tasks, IsCompletedEntry)
           kept == SelectSeq(probe.result, IsCompletedEntry)
       IN /\ Len(kept) >= 2
          /\ \E k \in Range(kept), d \in Range(terminal) \ Range(kept) :
                CreatedKey(k) = CreatedKey(d)
          /\ \E i \in 1..(Len(kept) - 1) : CreatedKey(kept[i]) = CreatedKey(kept[i + 1])
          /\ \E i \in 1..(Len(kept) - 1) : CreatedKey(kept[i]) > CreatedKey(kept[i + 1])

\* C35: starting from an empty cache, after any sequence of generate_image,
\* sync_pending_tasks and check_task_status calls the session cache has at
\* most one entry for each task id.
C35_OneEntryPerTask ==
    \A i, j \in 1..Len(cache) : EntryId(cache[i]) = EntryId(cache[j]) => i = j

\* a session of many tasks: the entry of an evicted task was added again by
\* check_task_status, and the entry generate_image wrote for a new task was
\* refreshed to a terminal status by a later sync or check
C35_Witness ==
    /\ Len(cache) > MAX_TASKS_IN_SESSION_STATE
    /\ \E i \in 1..Len(cache) : EntryId(cache[i]) = IdOf(MaxTasks + 1)
    /\ \E i \in 1..Len(cache), c \in Calls :
          /\ call[c] = Submitted(EntryId(cache[i])) /\ worker[c].pc = "done"
          /\ EntryStatus(cache[i]) \in Terminal

\* C36: starting from an empty cache, every entry of the session cache names
\* a task the Store has: generate_image writes the entry after the row, and
\* sync_pending_tasks and check_task_status write entries from rows only.
C36_EntriesHaveRows ==
    \A i \in 1..Len(cache) : HasTask(store, EntryId(cache[i]))

\* an entry written by generate_image while its row is already further on
C36_Witness ==
    /\ Len(cache) = 1 /\ Len(store) = 1
    /\ EntryStatus(cache[1]) = "pending"
    /\ GetTask(store, EntryId(cache[1])).status = "failed"

\* C37: when completions reach the Store only through the system's own
\* worker, notifier and receiver, the status of a cache entry is never ahead
\* of the status of the task's row in the order pending < processing <
\* terminal: the cache may be stale, it never shows more progress than the
\* Store.
C37_CacheNeverAhead ==
    \A i \in 1..Len(cache) :
        HasTask(store, EntryId(cache[i])) =>
            Rank(EntryStatus(cache[i])) <= Rank(GetTask(store, EntryId(cache[i])).status)

\* an entry refreshed to processing whose row has been completed since
C37_Witness ==
    \E i \in 1..Len(cache) :
        /\ EntryStatus(cache[i]) = "processing"
        /\ HasTask(store, EntryId(cache[i]))
        /\ GetTask(store, EntryId(cache[i])).status = "completed"

\* C38: sync_pending_tasks changes no field of a cache entry whose status is
\* already completed or failed: such an entry is not fetched again; it is
\* either in the cache after the call exactly as before, or evicted.
C38_SyncLeavesTerminalEntries ==
    probe.op = "synced" =>
        \A i \in 1..Len(probe.tasks) :
            EntryStatus(probe.tasks[i]) \in Terminal =>
                \A j \in 1..Len(probe.result) :
                    EntryId(probe.result[j]) = EntryId(probe.tasks[i])
                        => probe.result[j] = probe.tasks[i]

\* a sync that refreshed a pending entry, evicted a terminal entry and kept
\* a completed entry whose row has changed since
C38_Witness ==
    /\ probe.op = "synced"
    /\ Len(probe.result) < Len(probe.tasks)
    /\ probe.summary.message = "synced" /\ probe.summary.completed >= 1
    /\ \E j \in 1..Len(probe.result) :
          /\ EntryStatus(probe.result[j]) = "completed"
          /\ probe.result[j] \in Range(probe.tasks)
          /\ HasTask(probe.store, EntryId(probe.result[j]))
          /\ TaskToDict(GetTask(probe.store, EntryId(probe.result[j]))) # probe.result[j]

\* C39: when Store writes may fail with an exception, a row that has been
\* written completed, by the receiver or by a fallback write, is never
\* afterwards written failed by the worker's exception handler.
C39_CompletedNotOverwritten ==
    [][\A i \in 1..Len(store) :
          store[i].status = "completed" => store'[i].status # "failed"]_vars

====
